---------------------------- MODULE Spec2Model ----------------------------
(* A model of the FCFS triage queue of src/baseline.py: the class           *)
(* FCFSTriageSystem, a doubly linked list of _Node objects holding Patient  *)
(* records, with an optional capacity.                                      *)
(*                                                                          *)
(* Python's Optional[T] is a sequence of length at most one: None is <<>>   *)
(* and a present value x is <<x>>.  A _Node object is its index in the      *)
(* heap: data[n], next_ptr[n] and prev_ptr[n] are the three fields of node  *)
(* n.  A node that serve_next has unlinked stays in the heap with the       *)
(* fields the code left in it (its next_ptr is not cleared by the code).    *)
EXTENDS Integers, Sequences, FiniteSets

\* Bound of the model: the number of nodes ever allocated (successful arrivals).
MaxAdmit == 3

\* Bound of the model: the largest capacity handed to the constructor.
MaxCap == 2

\* Bound of the model: the number of add-patient attempts of a menu session.
MaxAttempts == 4

None == <<>>

Some(x) == <<x>>

\* The fields of a Patient.  arrive() validates none of them, so the sets
\* hold an empty name and severities outside 1..5, and few ids, so that the
\* same id arrives more than once.
PatientIds == {101, 102}

Names == {"", "Ann"}

Severities == {0, 5}

ArrivalTimes == {1, 2}

\* The Patient records handed to arrive(): two persons (id 101 is "Ann", id 102
\* gave no name), each with any severity and any arrival_time.
Patient ==
    {p \in [id : PatientIds, name : Names, severity : Severities,
            arrival_time : ArrivalTimes] : (p.name = "") <=> (p.id = 102)}

\* The values max_capacity can take: None, or any integer (not validated).
Capacities == {None} \cup {Some(c) : c \in (-1) .. MaxCap}

VARIABLES
    head,       \* self.head : Optional[_Node]
    tail,       \* self.tail : Optional[_Node]
    size,       \* self._size
    capacity,   \* self._capacity : Optional[int]
    data,       \* data[n]     : the Patient of node n
    next_ptr,   \* next_ptr[n] : Optional[_Node]
    prev_ptr,   \* prev_ptr[n] : Optional[_Node]
    ret,        \* the last call: its name, what it returned, what it raised
    pre_size,   \* history: self._size before the last call
    admitted,   \* history: the patients for which arrive returned True, in order
    served,     \* history: the patients returned by serve_next, in order
    served_nodes,   \* history: the nodes serve_next has unlinked
    abs_queue,  \* the abstract queue run beside the engine: a sequence of patients
    arrival_counter,    \* the menu's arrival_counter (baseline.py, __main__)
    thr,        \* the callers of the concurrent use: position and locals of each
    overlapped  \* history: a call began while another caller was inside a call

vars == <<head, tail, size, capacity, data, next_ptr, prev_ptr, ret, pre_size,
          admitted, served, served_nodes, abs_queue, arrival_counter, thr,
          overlapped>>

\* The queue state proper (no history).
queue == <<head, tail, size, capacity, data, next_ptr, prev_ptr>>

Nodes == 1 .. Len(data)

\* The histories of the calls made so far.
history == <<ret, pre_size, admitted, served, served_nodes, abs_queue>>

\* What a call of the engine by the single caller of Spec leaves alone.
outside == <<arrival_counter, thr, overlapped>>

\* The callers of the concurrent use of the engine.
Threads == {1, 2}

\* A caller that is in no call.
Idle == [pc |-> "idle", patient |-> None, new_node |-> None, node |-> None]

-----------------------------------------------------------------------------
\* FCFSTriageSystem.__init__(max_capacity)
Init ==
    /\ head = None
    /\ tail = None
    /\ size = 0
    /\ capacity \in Capacities
    /\ data = <<>>
    /\ next_ptr = <<>>
    /\ prev_ptr = <<>>
    /\ ret = [op |-> "__init__", ok |-> TRUE, val |-> None, exc |-> "none"]
    /\ pre_size = 0
    /\ admitted = <<>>
    /\ served = <<>>
    /\ served_nodes = {}
    /\ abs_queue = <<>>
    /\ arrival_counter = 0
    /\ thr = [t \in Threads |-> Idle]
    /\ overlapped = FALSE

\* Mutant of is_full: the comparison is > instead of >=.
is_full_gt == capacity # None /\ size > capacity[1]

\* Mutant of is_full: the test is "self._capacity is None or ...".
is_full_or_none == capacity = None \/ size >= capacity[1]

\* Mutant of is_full: the test is "self._capacity and ...", the truth value of
\* the capacity, which is false for 0 as it is for None.
is_full_truthy == capacity # None /\ capacity[1] # 0 /\ size >= capacity[1]

\* is_full(): self._capacity is not None and self._size >= self._capacity
is_full == capacity # None /\ size >= capacity[1]

\* is_empty(): self._size == 0
is_empty == size = 0

\* Mutant of arrive_link: self._size += 1 is forgotten.
arrive_link_nosize(patient) ==
    LET new_node == Len(data) + 1 IN
    /\ data' = Append(data, patient)
    /\ IF head = None THEN
           /\ next_ptr' = Append(next_ptr, None)
           /\ prev_ptr' = Append(prev_ptr, None)
           /\ head' = Some(new_node)
       ELSE
           /\ next_ptr' = Append([next_ptr EXCEPT ![tail[1]] = Some(new_node)], None)
           /\ prev_ptr' = Append(prev_ptr, tail)
           /\ head' = head
    /\ tail' = Some(new_node)
    /\ size' = size
    /\ ret' = [op |-> "arrive", ok |-> TRUE, val |-> None, exc |-> "none"]

\* Mutant of arrive_link: new_node.prev_ptr = self.tail is forgotten.
arrive_link_noprev(patient) ==
    LET new_node == Len(data) + 1 IN
    /\ data' = Append(data, patient)
    /\ IF head = None THEN
           /\ next_ptr' = Append(next_ptr, None)
           /\ head' = Some(new_node)
       ELSE
           /\ next_ptr' = Append([next_ptr EXCEPT ![tail[1]] = Some(new_node)], None)
           /\ head' = head
    /\ prev_ptr' = Append(prev_ptr, None)
    /\ tail' = Some(new_node)
    /\ size' = size + 1
    /\ ret' = [op |-> "arrive", ok |-> TRUE, val |-> None, exc |-> "none"]

\* Mutant of arrive_link: the new node is linked before the head.
arrive_link_front(patient) ==
    LET new_node == Len(data) + 1 IN
    /\ data' = Append(data, patient)
    /\ next_ptr' = Append(next_ptr, head)
    /\ prev_ptr' = IF head = None THEN Append(prev_ptr, None)
                   ELSE Append([prev_ptr EXCEPT ![head[1]] = Some(new_node)], None)
    /\ head' = Some(new_node)
    /\ tail' = IF head = None THEN Some(new_node) ELSE tail
    /\ size' = size + 1
    /\ ret' = [op |-> "arrive", ok |-> TRUE, val |-> None, exc |-> "none"]

\* Mutant of arrive_link: the new rear node's next_ptr is set to the head (a
\* circular list).
arrive_link_circular(patient) ==
    LET new_node == Len(data) + 1 IN
    /\ data' = Append(data, patient)
    /\ IF head = None THEN
           /\ next_ptr' = Append(next_ptr, None)
           /\ prev_ptr' = Append(prev_ptr, None)
           /\ head' = Some(new_node)
       ELSE
           /\ next_ptr' = Append([next_ptr EXCEPT ![tail[1]] = Some(new_node)], head)
           /\ prev_ptr' = Append(prev_ptr, tail)
           /\ head' = head
    /\ tail' = Some(new_node)
    /\ size' = size + 1
    /\ ret' = [op |-> "arrive", ok |-> TRUE, val |-> None, exc |-> "none"]

\* The body of arrive() after the is_full() test: allocate the node and link it.
arrive_link(patient) ==
    LET new_node == Len(data) + 1 IN
    IF head = None THEN
        /\ data' = Append(data, patient)
        /\ next_ptr' = Append(next_ptr, None)
        /\ prev_ptr' = Append(prev_ptr, None)
        /\ head' = Some(new_node)
        /\ tail' = Some(new_node)
        /\ size' = size + 1
        /\ ret' = [op |-> "arrive", ok |-> TRUE, val |-> None, exc |-> "none"]
    ELSE IF tail = None THEN
        \* assert self.tail is not None: raises, nothing was linked
        /\ UNCHANGED <<head, tail, size, data, next_ptr, prev_ptr>>
        /\ ret' = [op |-> "arrive", ok |-> FALSE, val |-> None,
                   exc |-> "AssertionError"]
    ELSE
        /\ data' = Append(data, patient)
        /\ next_ptr' = Append([next_ptr EXCEPT ![tail[1]] = Some(new_node)], None)
        /\ prev_ptr' = Append(prev_ptr, tail)
        /\ tail' = Some(new_node)
        /\ head' = head
        /\ size' = size + 1
        /\ ret' = [op |-> "arrive", ok |-> TRUE, val |-> None, exc |-> "none"]

\* Mutant of arrive: the patient is validated (a name, a severity in 1..5, an id
\* not yet queued) and refused otherwise.
arrive_validating(patient) ==
    /\ is_full \/ Len(data) < MaxAdmit
    /\ pre_size' = size
    /\ IF \/ is_full
          \/ patient.name = ""
          \/ patient.severity \notin 1 .. 5
          \/ \E n \in Nodes \ served_nodes : data[n].id = patient.id
       THEN
           /\ UNCHANGED <<head, tail, size, data, next_ptr, prev_ptr>>
           /\ ret' = [op |-> "arrive", ok |-> FALSE, val |-> None, exc |-> "none"]
       ELSE arrive_link(patient)
    /\ admitted' = IF ret'.ok THEN Append(admitted, patient) ELSE admitted
    /\ abs_queue' = IF ret'.ok THEN Append(abs_queue, patient) ELSE abs_queue
    /\ UNCHANGED <<capacity, served, served_nodes>>

\* arrive(patient)
arrive(patient) ==
    /\ is_full \/ Len(data) < MaxAdmit
    /\ pre_size' = size
    /\ IF is_full THEN
           /\ UNCHANGED <<head, tail, size, data, next_ptr, prev_ptr>>
           /\ ret' = [op |-> "arrive", ok |-> FALSE, val |-> None, exc |-> "none"]
       ELSE arrive_link(patient)
    /\ admitted' = IF ret'.ok THEN Append(admitted, patient) ELSE admitted
    /\ abs_queue' = IF ret'.ok THEN Append(abs_queue, patient) ELSE abs_queue
    /\ UNCHANGED <<capacity, served, served_nodes>>

\* Mutant of serve_unlink: the node is taken from the rear (LIFO).
serve_unlink_rear ==
    LET node == tail[1]
        new_tail == prev_ptr[node] IN
    /\ tail' = new_tail
    /\ IF new_tail # None THEN
           /\ next_ptr' = [next_ptr EXCEPT ![new_tail[1]] = None]
           /\ head' = head
       ELSE
           /\ head' = None
           /\ next_ptr' = next_ptr
    /\ size' = size - 1
    /\ ret' = [op |-> "serve_next", ok |-> TRUE, val |-> Some(data[node]),
               exc |-> "none"]
    /\ served' = Append(served, data[node])
    /\ served_nodes' = served_nodes \cup {node}
    /\ UNCHANGED <<prev_ptr, data>>

\* Mutant of serve_unlink: self.tail = None is forgotten when the chain empties.
serve_unlink_keep_tail ==
    LET node == head[1]
        new_head == next_ptr[node] IN
    /\ head' = new_head
    /\ prev_ptr' = IF new_head # None THEN [prev_ptr EXCEPT ![new_head[1]] = None]
                   ELSE prev_ptr
    /\ tail' = tail
    /\ size' = size - 1
    /\ ret' = [op |-> "serve_next", ok |-> TRUE, val |-> Some(data[node]),
               exc |-> "none"]
    /\ served' = Append(served, data[node])
    /\ served_nodes' = served_nodes \cup {node}
    /\ UNCHANGED <<next_ptr, data>>

\* Mutant of serve_unlink: self.head.prev_ptr = None is forgotten.
serve_unlink_keep_prev ==
    LET node == head[1]
        new_head == next_ptr[node] IN
    /\ head' = new_head
    /\ tail' = IF new_head # None THEN tail ELSE None
    /\ size' = size - 1
    /\ ret' = [op |-> "serve_next", ok |-> TRUE, val |-> Some(data[node]),
               exc |-> "none"]
    /\ served' = Append(served, data[node])
    /\ served_nodes' = served_nodes \cup {node}
    /\ UNCHANGED <<prev_ptr, next_ptr, data>>

\* Mutant of serve_unlink: self._size -= 1 is forgotten.
serve_unlink_nosize ==
    LET node == head[1]
        new_head == next_ptr[node] IN
    /\ head' = new_head
    /\ prev_ptr' = IF new_head # None THEN [prev_ptr EXCEPT ![new_head[1]] = None]
                   ELSE prev_ptr
    /\ tail' = IF new_head # None THEN tail ELSE None
    /\ size' = size
    /\ ret' = [op |-> "serve_next", ok |-> TRUE, val |-> Some(data[node]),
               exc |-> "none"]
    /\ served' = Append(served, data[node])
    /\ served_nodes' = served_nodes \cup {node}
    /\ UNCHANGED <<next_ptr, data>>

\* The body of serve_next() after the emptiness test: unlink the head node.
serve_unlink ==
    LET node == head[1]
        new_head == next_ptr[node] IN
    /\ head' = new_head
    /\ IF new_head # None THEN
           /\ prev_ptr' = [prev_ptr EXCEPT ![new_head[1]] = None]
           /\ tail' = tail
       ELSE
           /\ tail' = None
           /\ prev_ptr' = prev_ptr
    /\ size' = size - 1
    /\ ret' = [op |-> "serve_next", ok |-> TRUE, val |-> Some(data[node]),
               exc |-> "none"]
    /\ served' = Append(served, data[node])
    /\ served_nodes' = served_nodes \cup {node}
    /\ UNCHANGED <<next_ptr, data>>

\* Mutant of serve_next: self._size -= 1 runs before the emptiness test.
serve_next_early_dec ==
    /\ pre_size' = size
    /\ IF head = None THEN
           /\ size' = size - 1
           /\ UNCHANGED <<head, tail, data, next_ptr, prev_ptr, served, served_nodes>>
           /\ ret' = [op |-> "serve_next", ok |-> FALSE, val |-> None, exc |-> "none"]
       ELSE serve_unlink
    /\ abs_queue' = IF ret'.ok /\ abs_queue # <<>> THEN Tail(abs_queue) ELSE abs_queue
    /\ UNCHANGED <<capacity, admitted>>

\* serve_next()
serve_next ==
    /\ pre_size' = size
    /\ IF head = None THEN
           /\ UNCHANGED <<head, tail, size, data, next_ptr, prev_ptr, served, served_nodes>>
           /\ ret' = [op |-> "serve_next", ok |-> FALSE, val |-> None, exc |-> "none"]
       ELSE serve_unlink
    /\ abs_queue' = IF ret'.ok /\ abs_queue # <<>> THEN Tail(abs_queue) ELSE abs_queue
    /\ UNCHANGED <<capacity, admitted>>

-----------------------------------------------------------------------------
\* The loop of the traversals, "while current is not None: ...; current =
\* current.<link>", as the sequence of the nodes it visits.  The code's loop has
\* no bound; the walk stops after fuel nodes so that it is defined on a cyclic
\* chain too, and a chain of distinct nodes is never cut short by a fuel of
\* Len(data) + 1.
RECURSIVE walk(_, _, _)
walk(current, link, fuel) ==
    IF current = None \/ fuel = 0 THEN <<>>
    ELSE <<current[1]>> \o walk(link[current[1]], link, fuel - 1)

\* The nodes traverse_forward() visits, front to rear.
forward_nodes == walk(head, next_ptr, Len(data) + 1)

\* The nodes traverse_backward() visits, rear to front.
backward_nodes == walk(tail, prev_ptr, Len(data) + 1)

\* traverse_forward(): the patients from front to rear.
traverse_forward == [i \in 1 .. Len(forward_nodes) |-> data[forward_nodes[i]]]

\* traverse_backward(): the patients from rear to front.
traverse_backward == [i \in 1 .. Len(backward_nodes) |-> data[backward_nodes[i]]]

\* self.head after k more calls of serve_next(), from h: each call that finds
\* a head assigns self.head = node.next_ptr and touches no next_ptr.
RECURSIVE head_after(_, _)
head_after(h, k) ==
    IF k = 0 \/ h = None THEN h ELSE head_after(next_ptr[h[1]], k - 1)

\* get_current_size()
get_current_size == size

\* get_max_size()
get_max_size == capacity

-----------------------------------------------------------------------------
\* The calls of the query methods: each returns its value and assigns nothing.

\* What a query leaves alone: every field, and the histories but ret and pre_size.
query_frame == <<head, tail, size, capacity, data, next_ptr, prev_ptr,
                 admitted, served, served_nodes, abs_queue>>

\* A call of is_full()
do_is_full ==
    /\ ret' = [op |-> "is_full", ok |-> TRUE, val |-> is_full, exc |-> "none"]
    /\ pre_size' = size
    /\ UNCHANGED query_frame

\* A call of is_empty()
do_is_empty ==
    /\ ret' = [op |-> "is_empty", ok |-> TRUE, val |-> is_empty, exc |-> "none"]
    /\ pre_size' = size
    /\ UNCHANGED query_frame

\* Mutant of do_traverse_forward: the loop uses self.head as its cursor.
do_traverse_forward_cursor ==
    /\ ret' = [op |-> "traverse_forward", ok |-> TRUE, val |-> traverse_forward,
               exc |-> "none"]
    /\ pre_size' = size
    /\ head' = None
    /\ UNCHANGED <<tail, size, capacity, data, next_ptr, prev_ptr,
                   admitted, served, served_nodes, abs_queue>>

\* A call of traverse_forward()
do_traverse_forward ==
    /\ ret' = [op |-> "traverse_forward", ok |-> TRUE, val |-> traverse_forward,
               exc |-> "none"]
    /\ pre_size' = size
    /\ UNCHANGED query_frame

\* A call of traverse_backward()
do_traverse_backward ==
    /\ ret' = [op |-> "traverse_backward", ok |-> TRUE, val |-> traverse_backward,
               exc |-> "none"]
    /\ pre_size' = size
    /\ UNCHANGED query_frame

\* A call of get_current_size()
do_get_current_size ==
    /\ ret' = [op |-> "get_current_size", ok |-> TRUE, val |-> get_current_size,
               exc |-> "none"]
    /\ pre_size' = size
    /\ UNCHANGED query_frame

\* A call of get_max_size()
do_get_max_size ==
    /\ ret' = [op |-> "get_max_size", ok |-> TRUE, val |-> get_max_size,
               exc |-> "none"]
    /\ pre_size' = size
    /\ UNCHANGED query_frame

\* One call of the engine by its single caller.
Next ==
    \/ \E patient \in Patient : arrive(patient) /\ UNCHANGED outside
    \/ serve_next /\ UNCHANGED outside
    \/ do_is_full /\ UNCHANGED outside
    \/ do_is_empty /\ UNCHANGED outside
    \/ do_traverse_forward /\ UNCHANGED outside
    \/ do_traverse_backward /\ UNCHANGED outside
    \/ do_get_current_size /\ UNCHANGED outside
    \/ do_get_max_size /\ UNCHANGED outside

Spec == Init /\ [][Next]_vars

-----------------------------------------------------------------------------
\* The interactive session of baseline.py (__main__): the capacity is read with
\* a minimum of 1, then each turn of the menu loop runs one option.

\* What read_non_empty() and read_int() let through for a new patient: a name
\* that is not empty, any id, a severity in 1..5.
MenuNames == {"Ann"}

MenuSeverities == {1, 5}

\* arrival_counter = 0; queue_size = read_int(..., 1); FCFSTriageSystem(queue_size)
InitMenu ==
    /\ Init
    /\ capacity # None
    /\ capacity[1] >= 1

\* Mutant of option1: the counter is incremented only when arrive succeeded.
option1_count_admitted(name, pid, severity) ==
    /\ arrival_counter < MaxAttempts
    /\ arrive([id |-> pid, name |-> name, severity |-> severity,
               arrival_time |-> arrival_counter + 1])
    /\ arrival_counter' = IF ret'.ok THEN arrival_counter + 1 ELSE arrival_counter
    /\ UNCHANGED <<thr, overlapped>>

\* Option 1: read name, id and severity, increment arrival_counter, build the
\* Patient with arrival_time = arrival_counter, call arrive.
option1(name, pid, severity) ==
    /\ arrival_counter < MaxAttempts
    /\ arrival_counter' = arrival_counter + 1
    /\ arrive([id |-> pid, name |-> name, severity |-> severity,
               arrival_time |-> arrival_counter + 1])
    /\ UNCHANGED <<thr, overlapped>>

\* Option 2: call serve_next and print what it returned.
option2 ==
    /\ serve_next
    /\ UNCHANGED <<arrival_counter, thr, overlapped>>

\* Options 3 to 8: print the front or rear patient, the fullness, the
\* emptiness, the whole queue or its statistics; val is what is printed.
option_view(option) ==
    /\ ret' = [op |-> "view", ok |-> TRUE, exc |-> "none",
               val |-> CASE option = 3 ->
                              IF is_empty THEN None ELSE Some(traverse_forward[1])
                         [] option = 4 ->
                              IF is_empty THEN None ELSE Some(traverse_backward[1])
                         [] option = 5 -> <<get_current_size, get_max_size, is_full>>
                         [] option = 6 -> <<is_empty, get_current_size>>
                         [] option = 7 ->
                              IF is_empty THEN None ELSE Some(traverse_forward)
                         [] OTHER -> <<get_current_size, get_max_size, traverse_forward>>]
    /\ pre_size' = size
    /\ UNCHANGED query_frame
    /\ UNCHANGED <<arrival_counter, thr, overlapped>>

\* One turn of the menu loop.
NextMenu ==
    \/ \E name \in MenuNames, pid \in PatientIds, severity \in MenuSeverities :
          option1(name, pid, severity)
    \/ option2
    \/ \E option \in 3 .. 8 : option_view(option)

SpecMenu == InitMenu /\ [][NextMenu]_vars

-----------------------------------------------------------------------------
\* Two callers on the same queue with no lock: each statement of arrive and of
\* serve_next is one atomic step and reads self.head, self.tail and self._size
\* anew.  A return that follows the last assignment is part of that step.  A
\* statement that dereferences None raises AttributeError and ends the call.

\* The patient the concurrent callers bring: the link updates read no field of
\* it, so one record stands for all.
ConcPatients == {p \in Patient : p.id = 101 /\ p.severity = 5 /\ p.arrival_time = 1}

\* Caller t moves to statement pc.
goto(t, pc) == thr' = [thr EXCEPT ![t].pc = pc]

\* Caller t leaves its call (a return or an exception).
leave(t) == thr' = [thr EXCEPT ![t] = Idle]

\* Caller t begins a call: was another caller inside one?
begin(t) ==
    overlapped' = (overlapped \/ \E u \in Threads \ {t} : thr[u].pc # "idle")

\* The histories of the single caller are not kept in the concurrent use.
conc_frame == <<capacity, ret, pre_size, admitted, served, served_nodes, abs_queue,
                arrival_counter>>

\* arrive, line 53: if self.is_full(): return False
a53(t, patient) ==
    /\ thr[t].pc = "idle"
    /\ is_full \/ Len(data) + Cardinality({u \in Threads : thr[u].pc = "a56"}) < MaxAdmit
    /\ begin(t)
    /\ IF is_full THEN leave(t)
       ELSE thr' = [thr EXCEPT ![t].pc = "a56", ![t].patient = Some(patient)]
    /\ UNCHANGED <<head, tail, size, data, next_ptr, prev_ptr>>
    /\ UNCHANGED conc_frame

\* arrive, line 56: new_node = _Node(patient)
a56(t) ==
    /\ thr[t].pc = "a56"
    /\ data' = Append(data, thr[t].patient[1])
    /\ next_ptr' = Append(next_ptr, None)
    /\ prev_ptr' = Append(prev_ptr, None)
    /\ thr' = [thr EXCEPT ![t].pc = "a58", ![t].new_node = Some(Len(data) + 1)]
    /\ UNCHANGED <<head, tail, size, overlapped>>
    /\ UNCHANGED conc_frame

\* arrive, line 58: if self.head is None
a58(t) ==
    /\ thr[t].pc = "a58"
    /\ IF head = None THEN goto(t, "a59") ELSE goto(t, "a61")
    /\ UNCHANGED <<head, tail, size, data, next_ptr, prev_ptr, overlapped>>
    /\ UNCHANGED conc_frame

\* arrive, line 59: self.head = self.tail = new_node
a59(t) ==
    /\ thr[t].pc = "a59"
    /\ head' = thr[t].new_node
    /\ tail' = thr[t].new_node
    /\ goto(t, "a66")
    /\ UNCHANGED <<size, data, next_ptr, prev_ptr, overlapped>>
    /\ UNCHANGED conc_frame

\* arrive, line 61: assert self.tail is not None
a61(t) ==
    /\ thr[t].pc = "a61"
    /\ IF tail = None THEN leave(t) ELSE goto(t, "a62")
    /\ UNCHANGED <<head, tail, size, data, next_ptr, prev_ptr, overlapped>>
    /\ UNCHANGED conc_frame

\* arrive, line 62: self.tail.next_ptr = new_node
a62(t) ==
    /\ thr[t].pc = "a62"
    /\ IF tail = None THEN
           /\ leave(t)
           /\ next_ptr' = next_ptr
       ELSE
           /\ next_ptr' = [next_ptr EXCEPT ![tail[1]] = thr[t].new_node]
           /\ goto(t, "a63")
    /\ UNCHANGED <<head, tail, size, data, prev_ptr, overlapped>>
    /\ UNCHANGED conc_frame

\* Mutant of a63: the statement new_node.prev_ptr = self.tail is missing.
a63_missing(t) ==
    /\ thr[t].pc = "a63"
    /\ goto(t, "a64")
    /\ UNCHANGED <<head, tail, size, data, next_ptr, prev_ptr, overlapped>>
    /\ UNCHANGED conc_frame

\* arrive, line 63: new_node.prev_ptr = self.tail
a63(t) ==
    /\ thr[t].pc = "a63"
    /\ prev_ptr' = [prev_ptr EXCEPT ![thr[t].new_node[1]] = tail]
    /\ goto(t, "a64")
    /\ UNCHANGED <<head, tail, size, data, next_ptr, overlapped>>
    /\ UNCHANGED conc_frame

\* arrive, line 64: self.tail = new_node
a64(t) ==
    /\ thr[t].pc = "a64"
    /\ tail' = thr[t].new_node
    /\ goto(t, "a66")
    /\ UNCHANGED <<head, size, data, next_ptr, prev_ptr, overlapped>>
    /\ UNCHANGED conc_frame

\* arrive, lines 66-67: self._size += 1; return True
a66(t) ==
    /\ thr[t].pc = "a66"
    /\ size' = size + 1
    /\ leave(t)
    /\ UNCHANGED <<head, tail, data, next_ptr, prev_ptr, overlapped>>
    /\ UNCHANGED conc_frame

\* serve_next, line 74: if self.head is None: return None
s74(t) ==
    /\ thr[t].pc = "idle"
    /\ begin(t)
    /\ IF head = None THEN leave(t) ELSE goto(t, "s77")
    /\ UNCHANGED <<head, tail, size, data, next_ptr, prev_ptr>>
    /\ UNCHANGED conc_frame

\* serve_next, line 77: node = self.head
s77(t) ==
    /\ thr[t].pc = "s77"
    /\ thr' = [thr EXCEPT ![t].pc = "s78", ![t].node = head]
    /\ UNCHANGED <<head, tail, size, data, next_ptr, prev_ptr, overlapped>>
    /\ UNCHANGED conc_frame

\* serve_next, line 78: self.head = node.next_ptr
s78(t) ==
    /\ thr[t].pc = "s78"
    /\ IF thr[t].node = None THEN
           /\ leave(t)
           /\ head' = head
       ELSE
           /\ head' = next_ptr[thr[t].node[1]]
           /\ goto(t, "s80")
    /\ UNCHANGED <<tail, size, data, next_ptr, prev_ptr, overlapped>>
    /\ UNCHANGED conc_frame

\* serve_next, line 80: if self.head is not None
s80(t) ==
    /\ thr[t].pc = "s80"
    /\ IF head # None THEN goto(t, "s81") ELSE goto(t, "s83")
    /\ UNCHANGED <<head, tail, size, data, next_ptr, prev_ptr, overlapped>>
    /\ UNCHANGED conc_frame

\* serve_next, line 81: self.head.prev_ptr = None
s81(t) ==
    /\ thr[t].pc = "s81"
    /\ IF head = None THEN
           /\ leave(t)
           /\ prev_ptr' = prev_ptr
       ELSE
           /\ prev_ptr' = [prev_ptr EXCEPT ![head[1]] = None]
           /\ goto(t, "s85")
    /\ UNCHANGED <<head, tail, size, data, next_ptr, overlapped>>
    /\ UNCHANGED conc_frame

\* serve_next, line 83: self.tail = None
s83(t) ==
    /\ thr[t].pc = "s83"
    /\ tail' = None
    /\ goto(t, "s85")
    /\ UNCHANGED <<head, size, data, next_ptr, prev_ptr, overlapped>>
    /\ UNCHANGED conc_frame

\* serve_next, lines 85-86: self._size -= 1; return node.data
s85(t) ==
    /\ thr[t].pc = "s85"
    /\ size' = size - 1
    /\ leave(t)
    /\ UNCHANGED <<head, tail, data, next_ptr, prev_ptr, overlapped>>
    /\ UNCHANGED conc_frame

\* One statement of one caller.
NextConc ==
    \E t \in Threads :
        \/ \E patient \in ConcPatients : a53(t, patient)
        \/ a56(t)
        \/ a58(t)
        \/ a59(t)
        \/ a61(t)
        \/ a62(t)
        \/ a63(t)
        \/ a64(t)
        \/ a66(t)
        \/ s74(t)
        \/ s77(t)
        \/ s78(t)
        \/ s80(t)
        \/ s81(t)
        \/ s83(t)
        \/ s85(t)

SpecConc == Init /\ [][NextConc]_vars

-----------------------------------------------------------------------------
\* Properties

\* Auxiliary: the sequence s reversed.
Reverse(s) == [i \in 1 .. Len(s) |-> s[Len(s) + 1 - i]]

\* Auxiliary: the set of the elements of the sequence s.
Range(s) == {s[i] : i \in 1 .. Len(s)}

\* C1: strict FIFO.  The i-th successful serve_next returns the i-th admitted
\* patient, whatever its severity and arrival_time are: the patients served so
\* far are a prefix of the patients admitted so far, in admission order, so a
\* serve_next returns the earliest admitted patient not yet served, and N
\* arrivals followed by N removals return the patients in admission order.
C1_StrictFifo ==
    /\ Len(served) <= Len(admitted)
    /\ served = SubSeq(admitted, 1, Len(served))
    /\ (ret.op = "serve_next" /\ ret.ok) => ret.val = Some(admitted[Len(served)])
    /\ traverse_forward = SubSeq(admitted, Len(served) + 1, Len(admitted))

\* C1 witness: N arrivals then N removals emptied the queue, and the first
\* patient served had the lower severity and the later arrival_time.
C1_Witness ==
    /\ Len(served) = Len(admitted)
    /\ Len(served) >= 2
    /\ ret.op = "serve_next" /\ ret.ok
    /\ served[1].severity < served[2].severity
    /\ served[1].arrival_time > served[2].arrival_time
    /\ served[1].id = served[2].id

\* C2: an arrive on a full bounded queue returns False, raises nothing and
\* leaves head, tail, size, capacity, the patients and every link as they were
\* (so the queue is still full and a repeated arrive is again a no-op).
C2_ArriveFullNoOp ==
    [][(capacity # None /\ size >= capacity[1] /\ ret'.op = "arrive")
         => (/\ ret'.ok = FALSE
             /\ ret'.exc = "none"
             /\ UNCHANGED queue
             /\ capacity' # None /\ size' >= capacity'[1])]_vars

\* C2 witness: arrive was just refused on a full queue that holds patients and
\* has served one before; size is what it was before the call.
C2_Witness ==
    /\ ret.op = "arrive" /\ ~ret.ok
    /\ capacity # None /\ size >= capacity[1]
    /\ size >= 2
    /\ pre_size = size
    /\ Len(served) >= 1

\* C3: a serve_next on an empty queue (size == 0) returns None and leaves the
\* state as it was: size stays 0, head and tail stay None.
C3_ServeEmptyNoOp ==
    [][(size = 0 /\ ret'.op = "serve_next")
         => (/\ ret'.val = None
             /\ ~ret'.ok
             /\ UNCHANGED queue
             /\ size' = 0 /\ head' = None /\ tail' = None)]_vars

\* C3 witness: serve_next returned None on a queue that had been filled and
\* emptied before.
C3_Witness ==
    /\ ret.op = "serve_next" /\ ~ret.ok /\ ret.val = None
    /\ pre_size = 0 /\ size = 0
    /\ Len(served) >= 2

\* C4: if capacity is set, size <= capacity in every reachable state, that is
\* before and after every call of any sequence of arrive and serve_next calls.
\* The capacity of the data model is a positive integer; the bound is kept for
\* a capacity of 0 as well.  (A negative capacity is below the size of the new
\* queue; that construction is the case of C19.)
C4_SizeWithinCapacity ==
    (capacity # None /\ capacity[1] >= 0) => size <= capacity[1]

\* C4 witness: a queue of capacity 2 holds two patients after three admissions
\* and a removal, and the arrive that would have made it three was refused.
C4_Witness ==
    /\ capacity = Some(2)
    /\ size = 2
    /\ Len(admitted) = 3
    /\ Len(served) = 1
    /\ ret.op = "arrive" /\ ~ret.ok

\* C5: size is the number of nodes reachable from head by next-links, which is
\* the length of traverse_forward().
C5_SizeIsChainLength ==
    /\ size = Len(forward_nodes)
    /\ size = Cardinality(Range(forward_nodes))
    /\ size = Len(traverse_forward)

\* C5 witness: two patients are queued after an arrival, a removal and more
\* arrivals.
C5_Witness ==
    /\ size = 2
    /\ Len(served) >= 1
    /\ Len(forward_nodes) = 2

\* C6: head is None iff size == 0, and tail is None iff size == 0; so the test
\* of serve_next (head is None) agrees with is_empty(), and the assertion of
\* arrive's non-empty branch has never failed.
C6_HeadTailNoneIffEmpty ==
    /\ (head = None) <=> (size = 0)
    /\ (tail = None) <=> (size = 0)
    /\ (head = None) <=> is_empty
    /\ ret.exc # "AssertionError"

\* C6 witness: a serve_next removed the last patient, and head and tail are
\* both None again.
C6_Witness ==
    /\ ret.op = "serve_next" /\ ret.ok
    /\ pre_size = 1 /\ size = 0
    /\ head = None /\ tail = None
    /\ Len(served) >= 2

\* C7: the chain is symmetric: a node's next node links back to it by its
\* previous-link, and a node's previous node links to it by its next-link, for
\* every node reached from head or from tail.
C7_ChainSymmetric ==
    \A n \in Range(forward_nodes) \cup Range(backward_nodes) :
        /\ next_ptr[n] # None => prev_ptr[next_ptr[n][1]] = Some(n)
        /\ prev_ptr[n] # None => next_ptr[prev_ptr[n][1]] = Some(n)

\* C7 witness: a chain of two nodes linked both ways, after a removal.
C7_Witness ==
    /\ size = 2
    /\ Len(served) >= 1
    /\ next_ptr[head[1]] = tail
    /\ prev_ptr[tail[1]] = head
    /\ head # tail

\* C8: reversing traverse_forward() gives exactly traverse_backward().
C8_TraversalSymmetry == Reverse(traverse_forward) = traverse_backward

\* C8 witness: two different patients are queued after a removal, so the two
\* traversals differ.
C8_Witness ==
    /\ Len(traverse_forward) = 2
    /\ traverse_forward[1] # traverse_forward[2]
    /\ traverse_backward # traverse_forward
    /\ Len(served) >= 1

\* C9: size() is the number of successful arrive calls minus the number of
\* successful serve_next calls; a refused arrive and a serve_next on an empty
\* queue count for nothing.
C9_SizeBookkeeping ==
    /\ Len(served) <= Len(admitted)
    /\ get_current_size = Len(admitted) - Len(served)

\* C9 witness: three admissions, two removals, and a last call that failed.
C9_Witness ==
    /\ Len(admitted) = 3
    /\ Len(served) = 2
    /\ get_current_size = 1
    /\ ~ret.ok

\* C10: on a queue made with a capacity (a positive integer), once size() ==
\* capacity the next arrive returns failure and leaves size() as it is; one
\* serve_next on that full queue removes a patient, and after it an arrive
\* succeeds and brings size() back to capacity, whether it is the very next call
\* or the next call that changes the queue.
C10_CapacityRecovery ==
    [][(capacity # None /\ capacity[1] >= 1)
         => (/\ (size = capacity[1] /\ ret'.op = "arrive")
                  => (~ret'.ok /\ size' = size)
             /\ (size = capacity[1] /\ ret'.op = "serve_next")
                  => (ret'.ok /\ size' = capacity[1] - 1)
             /\ (pre_size = capacity[1] /\ ret.op = "serve_next" /\ ret.ok
                   /\ ret'.op = "arrive")
                  => (ret'.ok /\ size' = capacity[1])
             /\ (size = capacity[1] - 1 /\ ret'.op = "arrive")
                  => (ret'.ok /\ size' = capacity[1]))]_vars

\* C10 witness: a queue of capacity 1 has admitted two patients and served one,
\* so the first patient filled it, one serve_next emptied it, and the arrive that
\* has just succeeded brought size() back to the capacity.
C10_Witness ==
    /\ capacity = Some(1)
    /\ ret.op = "arrive" /\ ret.ok
    /\ pre_size = 0 /\ size = 1
    /\ Len(admitted) = 2
    /\ Len(served) = 1

\* C11: the calls of is_full, is_empty, traverse_forward, traverse_backward,
\* get_current_size and get_max_size leave head, tail, size, capacity, the
\* patients and every node link as they were, and no call at all changes
\* capacity.
C11_QueriesChangeNothing ==
    [][/\ ret'.op \in {"is_full", "is_empty", "traverse_forward",
                       "traverse_backward", "get_current_size", "get_max_size"}
            => UNCHANGED queue
       /\ capacity' = capacity]_vars

\* C11 witness: traverse_forward() has just returned two patients of a queue
\* that has served one, and the queue still holds the two.
C11_Witness ==
    /\ ret.op = "traverse_forward"
    /\ Len(ret.val) = 2
    /\ size = 2 /\ pre_size = 2
    /\ Len(served) >= 1
    /\ traverse_forward = ret.val

\* C12: is_full() is true exactly when capacity is set and size >= capacity; an
\* arrive succeeds exactly when that is false at the call; so on a queue made
\* without a capacity is_full() is never true and every arrive succeeds.
C12_FullIffAtCapacity ==
    [][/\ is_full <=> (capacity # None /\ size >= capacity[1])
       /\ ret'.op = "is_full"
            => (ret'.val <=> (capacity # None /\ size >= capacity[1]))
       /\ ret'.op = "arrive"
            => (ret'.ok <=> ~(capacity # None /\ size >= capacity[1]))
       /\ capacity = None
            => (/\ ~is_full
                /\ ret'.op = "is_full" => ret'.val = FALSE
                /\ ret'.op = "arrive" => ret'.ok)]_vars

\* C12 witness: a queue without capacity has just admitted its third patient,
\* more than any capacity of the bounded queues.
C12_Witness ==
    /\ capacity = None
    /\ ret.op = "arrive" /\ ret.ok
    /\ size > MaxCap

\* C13: arrive validates nothing: called on a queue that is not full it
\* succeeds whatever the patient's fields are and puts the patient at the rear,
\* and the invariants of the queue hold afterwards.
C13_ArriveValidatesNothing ==
    (ret.op = "arrive" /\ (capacity = None \/ pre_size < capacity[1]))
        => (/\ ret.ok /\ ret.exc = "none"
            /\ size = pre_size + 1
            /\ tail # None /\ data[tail[1]] = admitted[Len(admitted)]
            /\ size = Len(forward_nodes)
            /\ head # None
            /\ capacity # None => size <= capacity[1]
            /\ \A n \in Range(forward_nodes) :
                 /\ next_ptr[n] # None => prev_ptr[next_ptr[n][1]] = Some(n)
                 /\ prev_ptr[n] # None => next_ptr[prev_ptr[n][1]] = Some(n)
            /\ backward_nodes = Reverse(forward_nodes))

\* C13 witness: the patient just admitted has no name, a severity outside 1..5
\* and the id of the patient queued before it.
C13_Witness ==
    /\ ret.op = "arrive" /\ ret.ok
    /\ size = 2
    /\ traverse_forward[2].name = ""
    /\ traverse_forward[2].severity \notin 1 .. 5
    /\ traverse_forward[1].id = traverse_forward[2].id

\* C14: the engine refines the abstract sequence: after every call
\* traverse_forward() is the abstract sequence (a successful arrive appended its
\* patient, a successful serve_next removed the first element, nothing else
\* changed it), and a successful serve_next returns the first element the
\* abstract sequence had.
C14_RefinesSequence ==
    [][/\ traverse_forward' = abs_queue'
       /\ (ret'.op = "serve_next" /\ ret'.ok)
            => (abs_queue # <<>> /\ ret'.val = Some(Head(abs_queue)))
       /\ (ret'.op = "serve_next" /\ ~ret'.ok) => abs_queue = <<>>
       /\ ret'.op = "arrive"
            => (ret'.ok <=> (capacity = None \/ Len(abs_queue) < capacity[1]))]_vars

\* C14 witness: capacity 2, three admissions A, B, C and one removal (of A),
\* the last call being the arrive(C) that succeeded with one patient queued:
\* traverse_forward() is [B, C].
C14_Witness ==
    /\ capacity = Some(2)
    /\ Len(admitted) = 3 /\ served = <<admitted[1]>>
    /\ ret.op = "arrive" /\ ret.ok /\ pre_size = 1
    /\ traverse_forward = <<admitted[2], admitted[3]>>
    /\ admitted[2] # admitted[3]

\* Auxiliary: the walk along link from start visits exactly n distinct nodes
\* and then finds None (it is not the fuel that stops it).
EndsAfter(start, link, n) ==
    LET w == walk(start, link, Len(data) + 1) IN
    /\ Len(w) = n
    /\ Cardinality(Range(w)) = n
    /\ n <= Len(data)
    /\ n > 0 => link[w[n]] = None

\* C16: the traversals terminate: the next-chain from head and the prev-chain
\* from tail are acyclic and reach None after exactly size steps; and size
\* successive serve_next calls empty the queue: each serve_next on a queue with
\* size > 0 succeeds and removes exactly the first node of the chain, so that
\* head is None after size of them and not before.
C16_TraversalsTerminate ==
    [][/\ EndsAfter(head, next_ptr, size)
       /\ EndsAfter(tail, prev_ptr, size)
       /\ head_after(head, size) = None
       /\ \A k \in 0 .. size - 1 : head_after(head, k) # None
       /\ (ret'.op = "serve_next" /\ size > 0)
            => (/\ ret'.ok
                /\ size' = size - 1
                /\ forward_nodes' = Tail(forward_nodes)
                /\ head' = head_after(head, 1))
       /\ size' = 0 => (head' = None /\ tail' = None)]_vars

\* C16 witness: the last of three successive serve_next calls has emptied a
\* queue of three.
C16_Witness ==
    /\ Len(admitted) = 3 /\ Len(served) = 3
    /\ ret.op = "serve_next" /\ ret.ok
    /\ size = 0 /\ head = None /\ tail = None
    /\ next_ptr[1] = Some(2) /\ next_ptr[2] = Some(3)

\* C17: in a non-empty queue the head node has no previous node and the tail
\* node has no next node, so traverse_forward() stops exactly at the tail and
\* traverse_backward() exactly at the head; no node that serve_next has
\* unlinked is reached from head or from tail.
C17_BoundaryLinks ==
    /\ head # None =>
         /\ prev_ptr[head[1]] = None
         /\ forward_nodes # <<>>
         /\ Some(forward_nodes[Len(forward_nodes)]) = tail
    /\ tail # None =>
         /\ next_ptr[tail[1]] = None
         /\ backward_nodes # <<>>
         /\ Some(backward_nodes[Len(backward_nodes)]) = head
    /\ (Range(forward_nodes) \cup Range(backward_nodes)) \cap served_nodes = {}

\* C17 witness: a served node still points at the present head by its stale
\* next_ptr, and the queue holds two patients.
C17_Witness ==
    /\ size = 2
    /\ \E n \in served_nodes : next_ptr[n] = head
    /\ prev_ptr[head[1]] = None
    /\ next_ptr[tail[1]] = None

\* C19: a queue constructed with capacity 0 or a negative capacity is full in
\* every reachable state: is_full() returns True, every arrive returns False,
\* and the queue stays empty.
C19_NonPositiveCapacity ==
    (capacity # None /\ capacity[1] <= 0)
        => (/\ size = 0 /\ head = None /\ tail = None
            /\ data = <<>> /\ admitted = <<>>
            /\ traverse_forward = <<>>
            /\ ret.op = "arrive" => ~ret.ok
            /\ ret.op = "is_full" => ret.val = TRUE
            /\ ret.op = "serve_next" => ret.val = None)

\* C19 witness: an arrive has just been refused by a queue of capacity 0.
C19_Witness ==
    /\ capacity = Some(0)
    /\ ret.op = "arrive" /\ ~ret.ok
    /\ size = 0

\* Auxiliary: the arrival_time values of the patients of s increase strictly.
ArrivalIncreasing(s) ==
    \A i \in 1 .. Len(s) - 1 : s[i].arrival_time < s[i + 1].arrival_time

\* C18: in the menu session every add-patient attempt increments
\* arrival_counter, the rejected ones too, and stamps the patient with the new
\* value; the arrival_time values in traverse_forward() increase strictly from
\* front to rear, so serve_next returns the queued patient with the smallest
\* arrival_time.
C18_ArrivalStamps ==
    [][/\ ret'.op = "arrive"
            => (/\ arrival_counter' = arrival_counter + 1
                /\ ret'.ok => admitted'[Len(admitted')].arrival_time = arrival_counter')
       /\ ret'.op # "arrive" => arrival_counter' = arrival_counter
       /\ ArrivalIncreasing(traverse_forward')
       /\ (ret'.op = "serve_next" /\ ret'.ok)
            => \A i \in 1 .. Len(traverse_forward) :
                 ret'.val[1].arrival_time <= traverse_forward[i].arrival_time]_vars

\* C18 witness: a rejected attempt used up a number: the two queued patients'
\* arrival_time values are not consecutive, and the rear one is the more severe.
C18_Witness ==
    /\ Len(traverse_forward) = 2
    /\ traverse_forward[2].arrival_time > traverse_forward[1].arrival_time + 1
    /\ traverse_forward[2].severity > traverse_forward[1].severity
    /\ arrival_counter > Len(admitted)
    /\ Len(served) >= 1

\* Auxiliary: no caller is inside a call.
Quiescent == \A t \in Threads : thr[t].pc = "idle"

\* Auxiliary: some node reached from head or from tail has a next node that
\* does not link back to it, or a previous node that does not link to it.
ChainBroken ==
    \E n \in Range(forward_nodes) \cup Range(backward_nodes) :
        \/ next_ptr[n] # None /\ prev_ptr[next_ptr[n][1]] # Some(n)
        \/ prev_ptr[n] # None /\ next_ptr[prev_ptr[n][1]] # Some(n)

\* C15: the engine is safe only when its callers are serialized: as long as no
\* call began while another caller was inside a call, the chain is symmetric
\* whenever no call is in progress; with two callers interleaving their
\* statements a state with a broken chain is reached (the witness), and it
\* remains after both calls have returned.
C15_BrokenOnlyByInterleaving == (Quiescent /\ ~overlapped) => ~ChainBroken

\* C15 witness: both callers have returned from calls that overlapped, and a
\* node of the chain has a link that is not answered.
C15_Witness ==
    /\ Quiescent
    /\ overlapped
    /\ ChainBroken

=============================================================================
